---- MODULE Spec2Model ----
(***************************************************************************)
(* Model of the binary decoder of lib0 (decoding.js): a Decoder is a byte  *)
(* array `arr` (a Uint8Array, i.e. a window [byteOffset, byteOffset+length)*)
(* of a backing ArrayBuffer) and a cursor `pos`.                           *)
(*                                                                         *)
(* JavaScript numbers do not fit TLC's 32-bit integers, so an integer      *)
(* value is held as the set of positions of its 1-bits (bit 0 = least      *)
(* significant).  A 32-bit pattern is a subset of 0..31; a JavaScript      *)
(* number is a sign and a magnitude, [neg |-> BOOLEAN, mag |-> bit set].   *)
(***************************************************************************)
EXTENDS Integers, Sequences, FiniteSets, TLC

\* ------------------------------------------------------------------ bounds
\* longest backing buffer drawn in Init
MaxLen == 4
\* largest byteOffset of the decoder's array inside its backing buffer
MaxOffset == 1
\* most bytes of the backing buffer that lie behind the end of the array
MaxSlack == 1
\* operations are no longer applied once the cursor is beyond this position
MaxPos == 5
\* largest `len` argument passed to readUint8Array
MaxReadLen == 2

\* byte values the buffers of Spec are drawn from:
\* 1 (0x01) plain, 69 (0x45) sign bit + payload 5, 128 (0x80) continuation
ByteVals == {1, 69, 128}

\* ------------------------------------------------------ binary.js constants
BITS6 == 63
BITS7 == 127
BIT7 == 64
BIT8 == 128

\* the value of an out-of-range typed array read (arr[i] with i >= length)
Undefined == -1

\* --------------------------------------------------- JavaScript arithmetic
Pow2(n) == IF n = 0 THEN 1 ELSE 2 ^ n

\* bit set of a small non-negative integer (a byte or a mask)
ToBits(n) == {i \in 0..15 : (n \div Pow2(i)) % 2 = 1}

RECURSIVE FromBits(_)
\* the integer with the given bit set (only for bit sets below 2^30)
FromBits(B) ==
  IF B = {} THEN 0
  ELSE LET i == CHOOSE x \in B : TRUE IN Pow2(i) + FromBits(B \ {i})

\* does the natural number with bit set B fit a TLC integer comfortably
IsSmall(B) == \A i \in B : i < 20

\* ToInt32 of an array element: undefined becomes 0
ToInt32(r) == IF r = Undefined THEN {} ELSE ToBits(r)

\* r & mask, for an array element r and a constant mask
BitAnd(r, mask) == ToInt32(r) \cap ToBits(mask)

\* a | b on 32-bit patterns
BitOr(a, b) == a \cup b

\* a << n on a 32-bit pattern: the shift count is taken modulo 32 and the
\* bits shifted beyond bit 31 are lost
Shl(a, n) == {i + (n % 32) : i \in a} \cap (0..31)

\* x * 2^n on an unbounded natural number (no wrap, no loss)
ShiftUp(a, n) == {i + n : i \in a}

\* r < bound for an array element r: undefined converts to NaN, and every
\* comparison with NaN is false
Lt(r, bound) == r # Undefined /\ r < bound

\* a JavaScript number: sign and magnitude
Num(neg, mag) == [neg |-> neg, mag |-> mag]

\* num >>> 0: the 32-bit pattern read as an unsigned number
Uint32ToNumber(p) == Num(FALSE, p)

\* two's complement magnitude 2^32 - u of a pattern with bit 31 set
TwosMag(p) ==
  IF p \cap (0..30) = {} THEN {31}
  ELSE LET low == CHOOSE i \in p : \A j \in p : i <= j
       IN  {low} \cup {i \in (low + 1)..31 : i \notin p}

\* a 32-bit pattern read as a signed number (the result type of |, << and &)
Int32ToNumber(p) == IF 31 \in p THEN Num(TRUE, TwosMag(p)) ELSE Num(FALSE, p)

\* sign * num for sign in {1, -1}; -1 * 0 is the negative zero
Times(sign, num) == IF sign = -1 THEN Num(~num.neg, num.mag) ELSE num

\* a === b on numbers: the two zeros are equal
NumEq(a, b) == a.mag = b.mag /\ (a.mag = {} \/ a.neg = b.neg)

\* num < 0
IsNegative(num) == num.neg /\ num.mag # {}

\* ------------------------------------------------------------------- state
VARIABLES
  decoder,  \* [arr |-> [buffer, byteOffset, length], pos]: the Decoder
  op,       \* the operation performed last ("new" after construction)
  arg,      \* its argument (the len of readUint8Array), otherwise 0
  prev,     \* decoder.pos when that operation was invoked
  ret,      \* what the operation returned or threw
  nativeTextDecoder,  \* does the environment provide TextDecoder (string.js)
  written,  \* the values an encoder wrote to produce the bytes, if one did
  heap,     \* the Decoder objects two callers share, in the order of creation
  refs,     \* the references the callers hold: [original, clone], 0 for none
  target,   \* the reference the last operation was invoked on
  last,     \* per reference, the last call made through it and its outcome
  component,  \* the Lib0Component element and what its callbacks did last
  definer   \* the closure of createComponentDefiner and its definer's calls

vars ==
  <<decoder, op, arg, prev, ret, nativeTextDecoder, written,
    heap, refs, target, last, component, definer>>

\* new Uint8Array(buffer, byteOffset, length) as a value: a window of a
\* backing ArrayBuffer
Uint8Array(buffer, byteOffset, length) ==
  [buffer |-> buffer, byteOffset |-> byteOffset, length |-> length]

\* new Decoder(uint8Array)
Decoder(uint8Array) == [arr |-> uint8Array, pos |-> 0]

\* createDecoder(uint8Array)
createDecoder(uint8Array) == Decoder(uint8Array)

\* decoder.arr[i]: an index outside 0..length-1 of a typed array reads as
\* undefined, whatever the backing buffer holds there
At(arr, i) ==
  IF i >= 0 /\ i < arr.length THEN arr.buffer[arr.byteOffset + i + 1]
  ELSE Undefined

\* the bytes a view shows
Bytes(view) ==
  [i \in 1..view.length |-> view.buffer[view.byteOffset + i]]

\* ------------------------------------------------------- operation results
NoView == [buffer |-> <<>>, byteOffset |-> 0, length |-> 0]
Zero == Num(FALSE, {})

\* items: the elements of an array, in order, or the own properties of an
\* object as [key, value] records in the order the object enumerates them
Ret(kind, num, view, str, msg) ==
  [kind |-> kind, num |-> num, view |-> view, str |-> str, msg |-> msg,
   items |-> <<>>]

RetNumber(num) == Ret("number", num, NoView, <<>>, "")
RetUndefined == Ret("undefined", Zero, NoView, <<>>, "")
RetNaN == Ret("NaN", Zero, NoView, <<>>, "")
RetView(view) == Ret("Uint8Array", Zero, view, <<>>, "")
RetString(str) == Ret("string", Zero, NoView, str, "")
RetDecoder(pos) == Ret("Decoder", Num(FALSE, ToBits(pos)), NoView, <<>>, "")
RetThrow(msg) == Ret("throw", Zero, NoView, <<>>, msg)
RetNone == Ret("none", Zero, NoView, <<>>, "")
RetNull == Ret("null", Zero, NoView, <<>>, "")
RetFalse == Ret("false", Zero, NoView, <<>>, "")
RetTrue == Ret("true", Zero, NoView, <<>>, "")
RetBigInt(num) == Ret("bigint", num, NoView, <<>>, "")
\* a number read from an IEEE-754 pattern, held as that pattern: kind is
\* "float32" or "float64", neg the sign bit, mag the exponent and fraction bits
RetFloat(kind, num) == Ret(kind, num, NoView, <<>>, "")
RetArray(items) == [Ret("array", Zero, NoView, <<>>, "") EXCEPT !.items = items]
RetObject(items) == [Ret("object", Zero, NoView, <<>>, "") EXCEPT !.items = items]

\* the outcome of a call: the decoder afterwards and the value returned or
\* the error thrown
Outcome(d, r) == [decoder |-> d, ret |-> r]

\* decoder with its cursor moved to pos
At_pos(d, pos) == [d EXCEPT !.pos = pos]

Returned(r) == r.kind \notin {"throw", "none"}
Threw(r) == r.kind = "throw"

\* a small integer of the model as a JavaScript number
NumOfInt(n) == IF n < 0 THEN Num(TRUE, ToBits(0 - n)) ELSE Num(FALSE, ToBits(n))

\* -------------------------------------------------- buffer.js and string.js
\* buffer.createUint8ArrayViewFromArrayBuffer(buffer, byteOffset, length):
\* new Uint8Array(buffer, byteOffset, length), which throws a RangeError for a
\* negative length and for a window that does not lie inside the buffer
createUint8ArrayViewFromArrayBuffer(buffer, byteOffset, length) ==
  IF IsNegative(length) \/ ~IsSmall(length.mag) THEN RetThrow("RangeError")
  ELSE IF byteOffset + FromBits(length.mag) > Len(buffer) THEN RetThrow("RangeError")
  ELSE RetView(Uint8Array(buffer, byteOffset, FromBits(length.mag)))

\* the replacement character U+FFFD
Replacement == 65533

RECURSIVE Utf8CodePoints(_)
\* the code points of a byte sequence, each malformed byte replaced by
\* U+FFFD (one- and two-byte forms, code points up to U+07FF)
Utf8CodePoints(bytes) ==
  IF bytes = <<>> THEN <<>>
  ELSE LET b == Head(bytes) IN
    IF b < 128 THEN <<b>> \o Utf8CodePoints(Tail(bytes))
    ELSE IF b >= 194 /\ b < 224 /\ Len(bytes) >= 2
            /\ bytes[2] >= 128 /\ bytes[2] < 192
      THEN <<(b - 192) * 64 + (bytes[2] - 128)>> \o Utf8CodePoints(Tail(Tail(bytes)))
    ELSE <<Replacement>> \o Utf8CodePoints(Tail(bytes))

RECURSIVE Utf8WellFormed(_)
Utf8WellFormed(bytes) ==
  IF bytes = <<>> THEN TRUE
  ELSE LET b == Head(bytes) IN
    IF b < 128 THEN Utf8WellFormed(Tail(bytes))
    ELSE IF b >= 194 /\ b < 224 /\ Len(bytes) >= 2
            /\ bytes[2] >= 128 /\ bytes[2] < 192
      THEN Utf8WellFormed(Tail(Tail(bytes)))
    ELSE FALSE

\* string.decodeUtf8(buf): malformed input is substituted by TextDecoder and
\* rejected (URIError) by the decodeURIComponent fallback
decodeUtf8(buf) ==
  IF Utf8WellFormed(Bytes(buf)) \/ nativeTextDecoder
  THEN RetString(Utf8CodePoints(Bytes(buf)))
  ELSE RetThrow("URIError")

\* ---------------------------------------------------------------- decoding
\* hasContent(decoder)
hasContent(d) == d.pos # d.arr.length

\* clone(decoder, newPos)
clone(d, newPos) == At_pos(createDecoder(d.arr), newPos)

\* readUint8Array with decoder.pos = len instead of decoder.pos += len
readUint8Array_Assign(d, len) ==
  LET view == createUint8ArrayViewFromArrayBuffer(
                d.arr.buffer, d.pos + d.arr.byteOffset, len)
  IN  IF Threw(view) THEN Outcome(d, view)
      ELSE Outcome(At_pos(d, FromBits(len.mag)), view)

\* readUint8Array(decoder, len): the view is created first; decoder.pos is
\* advanced only when that did not throw
readUint8Array(d, len) ==
  LET view == createUint8ArrayViewFromArrayBuffer(
                d.arr.buffer, d.pos + d.arr.byteOffset, len)
  IN  IF Threw(view) THEN Outcome(d, view)
      ELSE Outcome(At_pos(d, d.pos + FromBits(len.mag)), view)

\* skip8(decoder): decoder.pos++ (returns the position before the increment)
skip8(d) == Outcome(At_pos(d, d.pos + 1), RetNumber(NumOfInt(d.pos)))

\* readUint8 indexing the array with the position of the previous call (a
\* cursor kept outside the Decoder object) instead of decoder.pos
readUint8_Stale(d) ==
  LET r == At(d.arr, prev)
  IN  Outcome(At_pos(d, d.pos + 1),
              IF r = Undefined THEN RetUndefined ELSE RetNumber(NumOfInt(r)))

\* readUint8(decoder): decoder.arr[decoder.pos++]
readUint8(d) ==
  LET r == At(d.arr, d.pos)
  IN  Outcome(At_pos(d, d.pos + 1),
              IF r = Undefined THEN RetUndefined ELSE RetNumber(NumOfInt(r)))

\* a + b + ... for an array element a and 32-bit patterns whose bit fields
\* do not overlap a's: undefined + number is NaN
PlusInt32(a, p) ==
  IF a = Undefined THEN RetNaN
  ELSE RetNumber(Int32ToNumber(BitOr(ToBits(a), p)))

\* readUint16(decoder)
readUint16(d) ==
  Outcome(At_pos(d, d.pos + 2),
          PlusInt32(At(d.arr, d.pos), Shl(ToInt32(At(d.arr, d.pos + 1)), 8)))

\* readUint32 without the final >>> 0
readUint32_Signed(d) ==
  LET a == At(d.arr, d.pos)
      p == BitOr(BitOr(Shl(ToInt32(At(d.arr, d.pos + 1)), 8),
                       Shl(ToInt32(At(d.arr, d.pos + 2)), 16)),
                 Shl(ToInt32(At(d.arr, d.pos + 3)), 24))
  IN  Outcome(At_pos(d, d.pos + 4),
              IF a = Undefined THEN RetNaN
              ELSE RetNumber(Int32ToNumber(BitOr(ToBits(a), p))))

\* readUint32(decoder): the byte sum is a signed 32-bit value when the fourth
\* byte is >= 128, and >>> 0 makes it unsigned; NaN >>> 0 is 0
readUint32(d) ==
  LET a == At(d.arr, d.pos)
      p == BitOr(BitOr(Shl(ToInt32(At(d.arr, d.pos + 1)), 8),
                       Shl(ToInt32(At(d.arr, d.pos + 2)), 16)),
                 Shl(ToInt32(At(d.arr, d.pos + 3)), 24))
  IN  Outcome(At_pos(d, d.pos + 4),
              IF a = Undefined THEN RetNumber(Zero)
              ELSE RetNumber(Uint32ToNumber(BitOr(ToBits(a), p))))

\* peekUint8(decoder): decoder.arr[decoder.pos]
peekUint8(d) ==
  LET r == At(d.arr, d.pos)
  IN  Outcome(d, IF r = Undefined THEN RetUndefined ELSE RetNumber(NumOfInt(r)))

\* peekUint16(decoder)
peekUint16(d) ==
  Outcome(d, PlusInt32(At(d.arr, d.pos), Shl(ToInt32(At(d.arr, d.pos + 1)), 8)))

\* peekUint32 without the final >>> 0
peekUint32_Signed(d) ==
  LET a == At(d.arr, d.pos)
      p == BitOr(BitOr(Shl(ToInt32(At(d.arr, d.pos + 1)), 8),
                       Shl(ToInt32(At(d.arr, d.pos + 2)), 16)),
                 Shl(ToInt32(At(d.arr, d.pos + 3)), 24))
  IN  Outcome(d, IF a = Undefined THEN RetNaN
                 ELSE RetNumber(Int32ToNumber(BitOr(ToBits(a), p))))

\* peekUint32(decoder): the parenthesised byte sum, then >>> 0
peekUint32(d) ==
  LET a == At(d.arr, d.pos)
      p == BitOr(BitOr(Shl(ToInt32(At(d.arr, d.pos + 1)), 8),
                       Shl(ToInt32(At(d.arr, d.pos + 2)), 16)),
                 Shl(ToInt32(At(d.arr, d.pos + 3)), 24))
  IN  Outcome(d, IF a = Undefined THEN RetNumber(Zero)
                 ELSE RetNumber(Uint32ToNumber(BitOr(ToBits(a), p))))

RECURSIVE readVarUintLoop_Signed(_, _, _)
\* readVarUintLoop returning num instead of num >>> 0
readVarUintLoop_Signed(d, num, len) ==
  LET r == At(d.arr, d.pos)
      d1 == At_pos(d, d.pos + 1)
      num1 == BitOr(num, Shl(BitAnd(r, BITS7), len))
      len1 == len + 7
  IN  IF Lt(r, BIT8) THEN Outcome(d1, RetNumber(Int32ToNumber(num1)))
      ELSE IF len1 > 35 THEN Outcome(d1, RetThrow("Integer out of range!"))
      ELSE readVarUintLoop_Signed(d1, num1, len1)

RECURSIVE readVarUintLoop_Late(_, _, _)
\* readVarUintLoop with the range check one byte late (len > 42)
readVarUintLoop_Late(d, num, len) ==
  LET r == At(d.arr, d.pos)
      d1 == At_pos(d, d.pos + 1)
      num1 == BitOr(num, Shl(BitAnd(r, BITS7), len))
      len1 == len + 7
  IN  IF Lt(r, BIT8) THEN Outcome(d1, RetNumber(Uint32ToNumber(num1)))
      ELSE IF len1 > 42 THEN Outcome(d1, RetThrow("Integer out of range!"))
      ELSE readVarUintLoop_Late(d1, num1, len1)

RECURSIVE readVarUintLoop_Bits6(_, _, _)
\* readVarUintLoop masking the payload with BITS6 instead of BITS7
readVarUintLoop_Bits6(d, num, len) ==
  LET r == At(d.arr, d.pos)
      d1 == At_pos(d, d.pos + 1)
      num1 == BitOr(num, Shl(BitAnd(r, BITS6), len))
      len1 == len + 7
  IN  IF Lt(r, BIT8) THEN Outcome(d1, RetNumber(Uint32ToNumber(num1)))
      ELSE IF len1 > 35 THEN Outcome(d1, RetThrow("Integer out of range!"))
      ELSE readVarUintLoop_Bits6(d1, num1, len1)

RECURSIVE readVarUintLoop(_, _, _)
\* the while (true) loop of readVarUint, entered with the values of num and
\* len: one iteration and, unless it returns or throws, the rest of the loop
readVarUintLoop(d, num, len) ==
  LET r == At(d.arr, d.pos)
      d1 == At_pos(d, d.pos + 1)
      num1 == BitOr(num, Shl(BitAnd(r, BITS7), len))
      len1 == len + 7
  IN  IF Lt(r, BIT8) THEN Outcome(d1, RetNumber(Uint32ToNumber(num1)))
      ELSE IF len1 > 35 THEN Outcome(d1, RetThrow("Integer out of range!"))
      ELSE readVarUintLoop(d1, num1, len1)

\* readVarUint(decoder)
readVarUint(d) == readVarUintLoop(d, {}, 0)

RECURSIVE readVarIntLoop_Late(_, _, _, _)
\* readVarIntLoop with the range check one byte late (len > 48)
readVarIntLoop_Late(d, num, len, sign) ==
  LET r == At(d.arr, d.pos)
      d1 == At_pos(d, d.pos + 1)
      num1 == BitOr(num, Shl(BitAnd(r, BITS7), len))
      len1 == len + 7
  IN  IF Lt(r, BIT8) THEN Outcome(d1, RetNumber(Times(sign, Int32ToNumber(num1))))
      ELSE IF len1 > 48 THEN Outcome(d1, RetThrow("Integer out of range!"))
      ELSE readVarIntLoop_Late(d1, num1, len1, sign)

RECURSIVE readVarIntLoop(_, _, _, _)
\* the while (true) loop of readVarInt
readVarIntLoop(d, num, len, sign) ==
  LET r == At(d.arr, d.pos)
      d1 == At_pos(d, d.pos + 1)
      num1 == BitOr(num, Shl(BitAnd(r, BITS7), len))
      len1 == len + 7
  IN  IF Lt(r, BIT8) THEN Outcome(d1, RetNumber(Times(sign, Int32ToNumber(num1))))
      ELSE IF len1 > 41 THEN Outcome(d1, RetThrow("Integer out of range!"))
      ELSE readVarIntLoop(d1, num1, len1, sign)

\* readVarInt taking the first byte's payload with BITS7 instead of BITS6
readVarInt_Bits7(d) ==
  LET r == At(d.arr, d.pos)
      d1 == At_pos(d, d.pos + 1)
      num == BitAnd(r, BITS7)
      sign == IF BitAnd(r, BIT7) # {} THEN -1 ELSE 1
  IN  IF BitAnd(r, BIT8) = {}
      THEN Outcome(d1, RetNumber(Times(sign, Int32ToNumber(num))))
      ELSE readVarIntLoop(d1, num, 6, sign)

\* readVarInt(decoder)
readVarInt(d) ==
  LET r == At(d.arr, d.pos)
      d1 == At_pos(d, d.pos + 1)
      num == BitAnd(r, BITS6)
      sign == IF BitAnd(r, BIT7) # {} THEN -1 ELSE 1
  IN  IF BitAnd(r, BIT8) = {}
      THEN Outcome(d1, RetNumber(Times(sign, Int32ToNumber(num))))
      ELSE readVarIntLoop(d1, num, 6, sign)

\* peekVarUint(decoder): the position is restored only when readVarUint
\* returns; an exception leaves the function before decoder.pos = pos
peekVarUint(d) ==
  LET s == readVarUint(d)
  IN  IF Threw(s.ret) THEN s ELSE Outcome(At_pos(s.decoder, d.pos), s.ret)

\* peekVarInt(decoder)
peekVarInt(d) ==
  LET s == readVarInt(d)
  IN  IF Threw(s.ret) THEN s ELSE Outcome(At_pos(s.decoder, d.pos), s.ret)

\* readVarUint8Array taking the view at the position of the length prefix
readVarUint8Array_NoSkip(d) ==
  LET len == readVarUint(d)
  IN  IF Threw(len.ret) THEN len ELSE readUint8Array(d, len.ret.num)

\* readVarUint8Array(decoder): readUint8Array(decoder, readVarUint(decoder))
readVarUint8Array(d) ==
  LET len == readVarUint(d)
  IN  IF Threw(len.ret) THEN len ELSE readUint8Array(len.decoder, len.ret.num)

\* readTailAsUint8Array(decoder)
readTailAsUint8Array(d) == readUint8Array(d, NumOfInt(d.arr.length - d.pos))

\* readVarString(decoder): string.decodeUtf8(readVarUint8Array(decoder))
readVarString(d) ==
  LET buf == readVarUint8Array(d)
  IN  IF Threw(buf.ret) THEN buf ELSE Outcome(buf.decoder, decodeUtf8(buf.ret.view))

\* peekVarString(decoder)
peekVarString(d) ==
  LET s == readVarString(d)
  IN  IF Threw(s.ret) THEN s ELSE Outcome(At_pos(s.decoder, d.pos), s.ret)

\* new DataView(buffer, byteOffset, byteLength) as a window of the buffer; a
\* window that does not lie inside the buffer is a RangeError
DataView(buffer, byteOffset, byteLength) ==
  IF byteOffset + byteLength > Len(buffer) THEN RetThrow("RangeError")
  ELSE RetView(Uint8Array(buffer, byteOffset, byteLength))

\* readFromDataView advancing decoder.pos before the DataView is created
readFromDataView_Early(d, len) ==
  Outcome(At_pos(d, d.pos + len),
          DataView(d.arr.buffer, d.arr.byteOffset + d.pos, len))

\* readFromDataView(decoder, len): decoder.pos is advanced only when the
\* DataView was created
readFromDataView(d, len) ==
  LET dv == DataView(d.arr.buffer, d.arr.byteOffset + d.pos, len)
  IN  IF Threw(dv) THEN Outcome(d, dv) ELSE Outcome(At_pos(d, d.pos + len), dv)

\* the big-endian bit pattern of the bytes of a DataView (byte 0 holds the
\* most significant bits)
BigEndian(dv) ==
  UNION {ShiftUp(ToBits(Bytes(dv)[i]), 8 * (dv.length - i)) : i \in 1..dv.length}

\* dv.getFloat32(0) / dv.getFloat64(0): the number with the pattern p of
\* `width` bits, of which the lowest `fraction` bits are the fraction; every
\* pattern with all exponent bits set and a non-zero fraction is NaN
GetFloat(kind, p, width, fraction) ==
  IF (fraction..(width - 2)) \subseteq p /\ p \cap (0..(fraction - 1)) # {}
  THEN RetNaN
  ELSE RetFloat(kind, Num((width - 1) \in p, p \ {width - 1}))

\* the magnitude 2^64 - u of a 64-bit pattern with bit 63 set
TwosMag64(p) ==
  IF p \cap (0..62) = {} THEN {63}
  ELSE LET low == CHOOSE i \in p : \A j \in p : i <= j
       IN  {low} \cup {i \in (low + 1)..63 : i \notin p}

\* dv.getBigInt64(0)
GetBigInt64(p) ==
  RetBigInt(IF 63 \in p THEN Num(TRUE, TwosMag64(p)) ELSE Num(FALSE, p))

\* readFloat32(decoder)
readFloat32(d) ==
  LET dv == readFromDataView(d, 4)
  IN  IF Threw(dv.ret) THEN dv
      ELSE Outcome(dv.decoder, GetFloat("float32", BigEndian(dv.ret.view), 32, 23))

\* readFloat64(decoder)
readFloat64(d) ==
  LET dv == readFromDataView(d, 8)
  IN  IF Threw(dv.ret) THEN dv
      ELSE Outcome(dv.decoder, GetFloat("float64", BigEndian(dv.ret.view), 64, 52))

\* readBigInt64(decoder)
readBigInt64(d) ==
  LET dv == readFromDataView(d, 8)
  IN  IF Threw(dv.ret) THEN dv
      ELSE Outcome(dv.decoder, GetBigInt64(BigEndian(dv.ret.view)))

\* readBigUint64(decoder)
readBigUint64(d) ==
  LET dv == readFromDataView(d, 8)
  IN  IF Threw(dv.ret) THEN dv
      ELSE Outcome(dv.decoder, RetBigInt(Num(FALSE, BigEndian(dv.ret.view))))

\* i < len for the loop counter i and the number len
CounterLt(i, len) ==
  ~len.neg /\ (~IsSmall(len.mag) \/ i < FromBits(len.mag))

\* the key "__proto__"
ProtoKey == <<95, 95, 112, 114, 111, 116, 111, 95, 95>>

\* the digits of 4294967294 (2^32 - 2), the largest array index
MaxIndexDigits == <<52, 50, 57, 52, 57, 54, 55, 50, 57, 52>>

RECURSIVE LexLeq(_, _)
\* a <= b for digit strings of the same length
LexLeq(a, b) ==
  IF a = <<>> THEN TRUE
  ELSE IF Head(a) # Head(b) THEN Head(a) < Head(b)
  ELSE LexLeq(Tail(a), Tail(b))

\* is the property key an array index: the canonical decimal form of an
\* integer in 0..2^32-2
IsArrayIndex(key) ==
  /\ Len(key) >= 1 /\ Len(key) <= 10
  /\ \A i \in 1..Len(key) : key[i] >= 48 /\ key[i] <= 57
  /\ (Len(key) > 1 => key[1] # 48)
  /\ (Len(key) = 10 => LexLeq(key, MaxIndexDigits))

\* a < b for two array index keys
IndexLt(a, b) == Len(a) < Len(b) \/ (Len(a) = Len(b) /\ a # b /\ LexLeq(a, b))

\* obj[key] = value on an object created by {}: an existing own property
\* keeps its place and gets the value; a new array index key is enumerated
\* in ascending numeric order before every other key; any other new key is
\* enumerated last; "__proto__" is the accessor inherited from
\* Object.prototype, which creates no own property
SetProperty(props, key, value) ==
  IF key = ProtoKey THEN props
  ELSE IF \E i \in 1..Len(props) : props[i].key = key
  THEN [i \in 1..Len(props) |->
          IF props[i].key = key THEN [key |-> key, value |-> value] ELSE props[i]]
  ELSE IF IsArrayIndex(key)
  THEN LET before == SelectSeq(props,
                       LAMBDA p : IsArrayIndex(p.key) /\ IndexLt(p.key, key))
           after == SelectSeq(props,
                      LAMBDA p : ~(IsArrayIndex(p.key) /\ IndexLt(p.key, key)))
       IN  before \o <<[key |-> key, value |-> value]>> \o after
  ELSE Append(props, [key |-> key, value |-> value])

\* readAnyLookupTable: the cases in the order of the array literal
readAnyLookupTable ==
  << "undefined", "null", "readVarInt", "readFloat32", "readFloat64",
     "readBigInt64", "false", "true", "readVarString", "object", "array",
     "readVarUint8Array" >>

RECURSIVE readAny(_)
RECURSIVE readAnyObjectLoop(_, _, _, _)
RECURSIVE readAnyArrayLoop(_, _, _, _)

\* the for loop of case 118, entered with the values of i and obj
readAnyObjectLoop(d, len, i, obj) ==
  IF ~CounterLt(i, len) THEN Outcome(d, RetObject(obj))
  ELSE LET key == readVarString(d) IN
    IF Threw(key.ret) THEN key
    ELSE LET value == readAny(key.decoder) IN
      IF Threw(value.ret) THEN value
      ELSE readAnyObjectLoop(value.decoder, len, i + 1,
                             SetProperty(obj, key.ret.str, value.ret))

RECURSIVE readAnyArrayLoop_Unshift(_, _, _, _)
\* readAnyArrayLoop with arr.unshift instead of arr.push
readAnyArrayLoop_Unshift(d, len, i, arr) ==
  IF ~CounterLt(i, len) THEN Outcome(d, RetArray(arr))
  ELSE LET value == readAny(d) IN
    IF Threw(value.ret) THEN value
    ELSE readAnyArrayLoop_Unshift(value.decoder, len, i + 1, <<value.ret>> \o arr)

RECURSIVE readAnyArrayLoop_Partial(_, _, _, _)
\* readAnyArrayLoop catching the exception of an element and returning the
\* elements read so far
readAnyArrayLoop_Partial(d, len, i, arr) ==
  IF ~CounterLt(i, len) THEN Outcome(d, RetArray(arr))
  ELSE LET value == readAny(d) IN
    IF Threw(value.ret) THEN Outcome(value.decoder, RetArray(arr))
    ELSE readAnyArrayLoop_Partial(value.decoder, len, i + 1, Append(arr, value.ret))

\* the for loop of case 117, entered with the values of i and arr
readAnyArrayLoop(d, len, i, arr) ==
  IF ~CounterLt(i, len) THEN Outcome(d, RetArray(arr))
  ELSE LET value == readAny(d) IN
    IF Threw(value.ret) THEN value
    ELSE readAnyArrayLoop(value.decoder, len, i + 1, Append(arr, value.ret))

\* the function stored under the given name in readAnyLookupTable, applied
\* to the decoder
readAnyCase(case, d) ==
  CASE case = "undefined" -> Outcome(d, RetUndefined)
    [] case = "null" -> Outcome(d, RetNull)
    [] case = "readVarInt" -> readVarInt(d)
    [] case = "readFloat32" -> readFloat32(d)
    [] case = "readFloat64" -> readFloat64(d)
    [] case = "readBigInt64" -> readBigInt64(d)
    [] case = "false" -> Outcome(d, RetFalse)
    [] case = "true" -> Outcome(d, RetTrue)
    [] case = "readVarString" -> readVarString(d)
    [] case = "object" ->
         LET len == readVarUint(d)
         IN  IF Threw(len.ret) THEN len
             ELSE readAnyObjectLoop(len.decoder, len.ret.num, 0, <<>>)
    [] case = "array" ->
         LET len == readVarUint(d)
         IN  IF Threw(len.ret) THEN len
             ELSE readAnyArrayLoop(len.decoder, len.ret.num, 0, <<>>)
    [] case = "readVarUint8Array" -> readVarUint8Array(d)

\* readAny with the table indexed by 128 - tag
readAny_Off(d) ==
  LET tag == readUint8(d)
      index == 128 - At(d.arr, d.pos)
  IN  IF tag.ret = RetUndefined \/ index < 0 \/ index >= Len(readAnyLookupTable)
      THEN Outcome(tag.decoder, RetThrow("TypeError"))
      ELSE readAnyCase(readAnyLookupTable[index + 1], tag.decoder)

\* readAny(decoder): readAnyLookupTable[127 - readUint8(decoder)](decoder);
\* the index is NaN when no byte is left, and an index that is not in 0..11
\* finds undefined, so that the call is a TypeError
readAny(d) ==
  LET tag == readUint8(d)
      index == 127 - At(d.arr, d.pos)
  IN  IF tag.ret = RetUndefined \/ index < 0 \/ index >= Len(readAnyLookupTable)
      THEN Outcome(tag.decoder, RetThrow("TypeError"))
      ELSE readAnyCase(readAnyLookupTable[index + 1], tag.decoder)

\* ----------------------------------------------------------- specification
\* a call record of `last` before any call
NoCall == [op |-> "new", arg |-> 0, prev |-> 0, ret |-> RetNone, pos |-> 0]

\* a single caller with a single decoder: no shared objects are tracked
NoObjects ==
  /\ heap = <<>>
  /\ refs = [original |-> 0, clone |-> 0]
  /\ target = "none"
  /\ last = [original |-> NoCall, clone |-> NoCall]

\* no element was created and no definer wrapped: only decoders are used
NoComponent ==
  /\ component = [created |-> FALSE]
  /\ definer = [created |-> FALSE]

\* all sequences over S of length at most n
SeqsUpTo(S, n) == UNION {[1..k -> S] : k \in 0..n}

\* the decoders of Init: every window of every buffer, the window starting
\* at most MaxOffset bytes into the buffer and ending at most MaxSlack bytes
\* before its end
InitArrays ==
  { Uint8Array(b, o, n) :
      b \in SeqsUpTo(ByteVals, MaxLen), o \in 0..MaxOffset, n \in 0..MaxLen }

Init ==
  /\ \E a \in InitArrays :
       /\ a.byteOffset + a.length <= Len(a.buffer)
       /\ a.byteOffset + a.length + MaxSlack >= Len(a.buffer)
       /\ decoder = createDecoder(a)
  /\ op = "new"
  /\ NoObjects
  /\ NoComponent
  /\ arg = 0
  /\ prev = 0
  /\ ret = RetNone
  /\ nativeTextDecoder \in BOOLEAN
  /\ written = <<>>

\* the caller invokes operation `name`, whose outcome on the current decoder
\* is o; a caller that catches an exception may go on using the decoder
Call(name, a, o) ==
  /\ decoder.pos <= MaxPos
  /\ decoder' = o.decoder
  /\ ret' = o.ret
  /\ op' = name
  /\ arg' = a
  /\ prev' = decoder.pos
  /\ UNCHANGED <<nativeTextDecoder, written, heap, refs, target, last,
               component, definer>>

Skip8 == Call("skip8", 0, skip8(decoder))
ReadUint8 == Call("readUint8", 0, readUint8(decoder))
ReadUint16 == Call("readUint16", 0, readUint16(decoder))
ReadUint32 == Call("readUint32", 0, readUint32(decoder))
PeekUint8 == Call("peekUint8", 0, peekUint8(decoder))
PeekUint16 == Call("peekUint16", 0, peekUint16(decoder))
PeekUint32 == Call("peekUint32", 0, peekUint32(decoder))
ReadVarUint == Call("readVarUint", 0, readVarUint(decoder))
ReadVarInt == Call("readVarInt", 0, readVarInt(decoder))
PeekVarUint == Call("peekVarUint", 0, peekVarUint(decoder))
PeekVarInt == Call("peekVarInt", 0, peekVarInt(decoder))
ReadUint8Array ==
  \E len \in 0..MaxReadLen :
    Call("readUint8Array", len, readUint8Array(decoder, NumOfInt(len)))
ReadVarUint8Array == Call("readVarUint8Array", 0, readVarUint8Array(decoder))
ReadTailAsUint8Array ==
  Call("readTailAsUint8Array", 0, readTailAsUint8Array(decoder))
ReadVarString == Call("readVarString", 0, readVarString(decoder))
PeekVarString == Call("peekVarString", 0, peekVarString(decoder))

\* clone(decoder) with the default position: the caller goes on with the
\* clone, a decoder over the same array at the same position
Clone ==
  LET c == clone(decoder, decoder.pos)
  IN  Call("clone", 0, Outcome(c, RetDecoder(c.pos)))

\* clone(decoder, newPos) with an explicit position inside the array: the
\* caller goes on with the clone
CloneAt ==
  \E newPos \in 0..decoder.arr.length :
    LET c == clone(decoder, newPos)
    IN  Call("clone(newPos)", newPos, Outcome(c, RetDecoder(c.pos)))

ReadAny == Call("readAny", 0, readAny(decoder))

ReadFloat32 == Call("readFloat32", 0, readFloat32(decoder))
ReadFloat64 == Call("readFloat64", 0, readFloat64(decoder))
ReadBigInt64 == Call("readBigInt64", 0, readBigInt64(decoder))
ReadBigUint64 == Call("readBigUint64", 0, readBigUint64(decoder))

HasContent ==
  Call("hasContent", 0,
       Outcome(decoder, IF hasContent(decoder) THEN RetTrue ELSE RetFalse))

Next ==
  \/ Skip8 \/ ReadUint8 \/ ReadUint16 \/ ReadUint32
  \/ PeekUint8 \/ PeekUint16 \/ PeekUint32
  \/ ReadVarUint \/ ReadVarInt \/ PeekVarUint \/ PeekVarInt
  \/ ReadUint8Array \/ ReadVarUint8Array \/ ReadTailAsUint8Array
  \/ ReadVarString \/ PeekVarString
  \/ Clone

Spec == Init /\ [][Next]_vars

\* ------------------------------------------------- varint streams (SpecVarint)
\* most continuation-flagged bytes at the start of a stream of InitVarint
MaxConts == 6

\* continuation-flagged bytes: 0x80 (payload 0) and 0xFF (payload 127; as a
\* first varInt byte: sign bit and payload 63)
ContBytes == {128, 255}

\* terminating bytes: 0x00, 0x01, 0x10, 0x40 (as a first varInt byte: sign
\* bit, payload 0), 0x7F
TermBytes == {0, 1, 16, 64, 127}

\* streams of continuation bytes, ended by a terminating byte or by the end
\* of the data
VarintStreams ==
  { c \o t : c \in SeqsUpTo(ContBytes, MaxConts),
             t \in {<<>>} \cup {<<b>> : b \in TermBytes} }

InitVarint ==
  /\ \E b \in VarintStreams : decoder = createDecoder(Uint8Array(b, 0, Len(b)))
  /\ op = "new"
  /\ NoObjects
  /\ NoComponent
  /\ arg = 0
  /\ prev = 0
  /\ ret = RetNone
  /\ nativeTextDecoder = TRUE
  /\ written = <<>>

NextVarint == ReadVarUint \/ ReadVarInt \/ PeekVarUint \/ PeekVarInt \/ Skip8

SpecVarint == InitVarint /\ [][NextVarint]_vars

\* --------------------------------------------------- vocabulary of the claims
\* the array and the position the last operation was invoked on
Arr == decoder.arr
Remaining == Arr.length - prev
Consumed == decoder.pos - prev

\* is the byte at index i of the array present and continuation-flagged
IsCont(i) == At(Arr, i) # Undefined /\ At(Arr, i) >= 128
\* is the byte at index i of the array present and not continuation-flagged
IsTerm(i) == At(Arr, i) # Undefined /\ At(Arr, i) < 128

\* the stream at prev is b0..bk with b0..b(k-1) continuation-flagged and bk not
WellTerminated(k) == IsTerm(prev + k) /\ \A i \in 0..(k - 1) : IsCont(prev + i)

\* the stream at prev starts with n continuation-flagged bytes
StartsWithConts(n) == \A i \in 0..(n - 1) : IsCont(prev + i)

\* (b AND 127) * 2^shift and (b AND 63) * 2^shift as unbounded naturals
Payload7(b, shift) == ShiftUp(ToBits(b) \cap (0..6), shift)
Payload6(b, shift) == ShiftUp(ToBits(b) \cap (0..5), shift)

\* sum over i <= k of (bi AND 127) * 128^i: the 7-bit fields do not overlap,
\* so the sum's bit set is their union
VarUintSum(k) == UNION {Payload7(At(Arr, prev + i), 7 * i) : i \in 0..k}

\* the same modulo 2^32
VarUintValue(k) == VarUintSum(k) \cap (0..31)

\* (b0 AND 63) + sum over 1 <= i <= k of (bi AND 127) * 2^(6 + 7 * (i - 1))
VarIntMagnitude(k) ==
  Payload6(At(Arr, prev), 0)
    \cup UNION {Payload7(At(Arr, prev + i), 6 + 7 * (i - 1)) : i \in 1..k}

\* is bit 6 (0x40) of b0 set
SignBitSet == 6 \in ToBits(At(Arr, prev))

\* C1: peekVarUint and peekVarString leave decoder.pos as it was before the
\* call, whether they return a value or the underlying read raises an error
C1_PeekKeepsPos ==
  op \in {"peekVarUint", "peekVarString"} => decoder.pos = prev

\* C2: in every reachable state 0 <= decoder.pos <= decoder.arr.length
C2_PosInBounds == 0 <= decoder.pos /\ decoder.pos <= decoder.arr.length

\* fewer bytes remained than the last read operation needed to consume: a
\* fixed-width read with too few bytes left, or a varint read on a stream
\* whose remaining bytes are all continuation-flagged (none left included)
C3_Underrun ==
  \/ op = "readUint8" /\ Remaining < 1
  \/ op = "readUint16" /\ Remaining < 2
  \/ op = "readUint32" /\ Remaining < 4
  \/ op = "readUint8Array" /\ Remaining < arg
  \/ /\ op \in {"readVarUint", "readVarInt"}
     /\ \A i \in prev..(Arr.length - 1) : IsCont(i)

\* C3: a read operation invoked when fewer bytes remain than it needs ends in
\* an error; it never returns a value
C3_UnderrunThrows == C3_Underrun => Threw(ret)

\* is the number greater than the small integer n
NumGt(num, n) == ~IsNegative(num) /\ (~IsSmall(num.mag) \/ FromBits(num.mag) > n)

\* the varUint length prefix read at prev, as readVarString reads it
C4_Prefix == readVarUint(At_pos(decoder, prev))

\* C4: readVarString on a stream whose varUint length prefix is larger than
\* the number of bytes remaining in the decoder's array raises an error and
\* never returns a string
C4_TruncatedStringThrows ==
  ( /\ op = "readVarString"
    /\ Returned(C4_Prefix.ret)
    /\ NumGt(C4_Prefix.ret.num, Arr.length - C4_Prefix.decoder.pos) )
  => Threw(ret)

\* C5: on a stream b0..bk (k <= 4) of continuation-flagged bytes ended by an
\* unflagged one, readVarUint returns (sum of (bi AND 127) * 128^i) mod 2^32,
\* a value in 0..2^32-1, and advances the cursor by exactly k + 1
C5_VarUintValue ==
  \A k \in 0..4 :
    (op = "readVarUint" /\ WellTerminated(k)) =>
      /\ ret.kind = "number"
      /\ ret.num = Num(FALSE, VarUintValue(k))
      /\ ret.num.mag \subseteq 0..31
      /\ Consumed = k + 1

\* C5 witness: a five-byte varUint whose sum exceeds 2^32 was read, and the
\* result has bit 31 set
C5_Witness ==
  /\ op = "readVarUint" /\ WellTerminated(4)
  /\ VarUintSum(4) # VarUintValue(4)
  /\ 31 \in ret.num.mag
  /\ Consumed = 5

\* C6: readVarUint on a stream that starts with 6 or more continuation-flagged
\* bytes raises 'Integer out of range!' instead of returning a value
C6_VarUintOutOfRange ==
  (op = "readVarUint" /\ StartsWithConts(6)) =>
    ret = RetThrow("Integer out of range!")

\* C6 witness: readVarUint was applied to six continuation-flagged bytes
\* followed by a terminating byte, and threw
C6_Witness ==
  /\ op = "readVarUint" /\ StartsWithConts(6) /\ IsTerm(prev + 6)
  /\ Threw(ret)

\* C7: readVarUint never returns successfully after having consumed more than
\* 5 bytes
C7_VarUintAtMost5 ==
  (op = "readVarUint" /\ Returned(ret)) => Consumed <= 5

\* C8: on a well-terminated varInt b0..bk (k <= 5) readVarInt returns s * m,
\* m the assembled magnitude and s = -1 iff bit 6 of b0 is set; the result is
\* negative only if the sign bit is set
C8_VarIntValue ==
  \A k \in 0..5 :
    (op = "readVarInt" /\ WellTerminated(k)) =>
      /\ ret.kind = "number"
      /\ NumEq(ret.num, Num(SignBitSet, VarIntMagnitude(k)))
      /\ IsNegative(ret.num) => SignBitSet

\* C9: readVarInt never returns successfully after having consumed more than
\* 6 bytes
C9_VarIntAtMost6 ==
  (op = "readVarInt" /\ Returned(ret)) => Consumed <= 6

\* ------------------------------------------ unsigned round trip (SpecRoundTrip)
\* most bytes that follow the encoding in a stream of InitRoundTrip
MaxTrail == 1

\* base-128 digits the written values are assembled from
Digits == {0, 1, 127}

\* the written values: all five-digit combinations, reduced to 32 bits; among
\* them 2^7-1, 2^7, 2^14-1, 2^14, 2^21, 2^28 and 2^32-1
RoundTripValues ==
  { (UNION {ShiftUp(ToBits(d[i]), 7 * (i - 1)) : i \in 1..5}) \cap (0..31) :
      d \in [1..5 -> Digits] }

RECURSIVE writeVarUint(_)
\* encoding.writeVarUint: while the number exceeds 7 bits, write its low 7
\* bits with the continuation bit set and shift it right by 7; then write the
\* remaining bits.  The bytes written, for the number with bit set num.
writeVarUint(num) ==
  IF \E i \in num : i >= 7
  THEN <<BIT8 + FromBits(num \cap (0..6))>>
         \o writeVarUint({i - 7 : i \in num \ (0..6)})
  ELSE <<FromBits(num)>>

InitRoundTrip ==
  /\ \E v \in RoundTripValues, t \in SeqsUpTo({1, 128}, MaxTrail) :
       /\ written = <<Num(FALSE, v)>>
       /\ decoder = createDecoder(
            Uint8Array(writeVarUint(v) \o t, 0, Len(writeVarUint(v) \o t)))
  /\ op = "new"
  /\ NoObjects
  /\ NoComponent
  /\ arg = 0
  /\ prev = 0
  /\ ret = RetNone
  /\ nativeTextDecoder = TRUE

NextRoundTrip == ReadVarUint \/ PeekVarUint

SpecRoundTrip == InitRoundTrip /\ [][NextRoundTrip]_vars

\* C10: readVarUint applied to the minimal base-128 encoding of v returns
\* exactly v and leaves the cursor immediately after the encoding
C10_VarUintRoundTrip ==
  (op = "readVarUint" /\ prev = 0) =>
    /\ ret = RetNumber(written[1])
    /\ decoder.pos = Len(writeVarUint(written[1].mag))

\* C10 witness: 2^32-1 was written as five bytes, followed by another byte,
\* and read back
C10_Witness ==
  /\ op = "readVarUint" /\ prev = 0
  /\ written[1].mag = 0..31
  /\ decoder.arr.length = 6
  /\ Returned(ret)
  /\ decoder.pos = 5


\* ------------------------------------ signed round trip (SpecSignedRoundTrip)
\* magnitudes written by the encoder: the boundaries of the one-byte form
\* (0, 1, 63), of the two-byte form (64, 65, 8191) and the first three-byte
\* magnitude (8192)
SignedMags == {0, 1, 63, 64, 65, 8191, 8192}

\* the values written: every magnitude with either sign (both zeros included)
SignedValues == {Num(neg, ToBits(m)) : neg \in BOOLEAN, m \in SignedMags}

RECURSIVE writeVarIntTail(_)
\* the bytes after the first one: 7 payload bits each, least significant
\* group first, bit 7 set while more follow
writeVarIntTail(n) ==
  IF n = 0 THEN <<>>
  ELSE <<(IF n > BITS7 THEN BIT8 ELSE 0) + (n % 128)>> \o writeVarIntTail(n \div 128)

\* the signed encoding of a number: first byte bit 7 continuation, bit 6
\* sign, bits 0-5 the lowest payload bits
writeVarInt(num) ==
  LET n == FromBits(num.mag)
  IN  <<(IF n > BITS6 THEN BIT8 ELSE 0) + (IF num.neg THEN BIT7 ELSE 0) + (n % 64)>>
      \o writeVarIntTail(n \div 64)

InitSignedRoundTrip ==
  /\ \E v \in SignedValues, t \in SeqsUpTo({1, 128}, MaxTrail) :
       /\ written = <<v>>
       /\ decoder = createDecoder(
            Uint8Array(writeVarInt(v) \o t, 0, Len(writeVarInt(v)) + Len(t)))
  /\ op = "new"
  /\ NoObjects
  /\ NoComponent
  /\ arg = 0
  /\ prev = 0
  /\ ret = RetNone
  /\ nativeTextDecoder = TRUE

NextSignedRoundTrip == ReadVarInt \/ PeekVarInt

SpecSignedRoundTrip == InitSignedRoundTrip /\ [][NextSignedRoundTrip]_vars

\* C11: readVarInt applied at the start of the signed encoding of a value
\* returns a number equal to it, with the sign of the written value when the
\* magnitude is not zero and with magnitude zero for either zero (0x00 and
\* 0x40), and consumes exactly the bytes of the encoding.
C11_VarIntRoundTrip ==
  (op = "readVarInt" /\ prev = 0) =>
    /\ ret.kind = "number"
    /\ ret.num.mag = written[1].mag
    /\ (written[1].mag # {} => ret.num.neg = written[1].neg)
    /\ decoder.pos = Len(writeVarInt(written[1]))

\* -65 (bytes 0xC1 0x01) was read back; so was the zero written as 0x40
C11_Witness ==
  /\ op = "readVarInt" /\ prev = 0
  /\ written[1] = Num(TRUE, ToBits(65))
  /\ ret.num = Num(TRUE, ToBits(65))
  /\ decoder.pos = 2
  /\ At(Arr, 0) = 193


\* ------------------------------------------- fixed-width reads (SpecFixed)
\* longest array of InitFixed
MaxFixedLen == 5

\* byte values of InitFixed: 0x01, 0x80 and 0xFF (the latter two make bit 31
\* of a 32-bit little-endian value when they are its fourth byte)
FixedBytes == {1, 128, 255}

InitFixed ==
  /\ \E b \in SeqsUpTo(FixedBytes, MaxFixedLen) :
       decoder = createDecoder(Uint8Array(b, 0, Len(b)))
  /\ op = "new"
  /\ NoObjects
  /\ NoComponent
  /\ arg = 0
  /\ prev = 0
  /\ ret = RetNone
  /\ nativeTextDecoder = TRUE
  /\ written = <<>>

NextFixed == ReadUint8 \/ ReadUint16 \/ ReadUint32 \/ Skip8

SpecFixed == InitFixed /\ [][NextFixed]_vars

\* the sum of arr[prev + i] * 256^i for i < n, as a number
LittleEndian(n) ==
  Num(FALSE, UNION {ShiftUp(ToBits(At(Arr, prev + i)), 8 * i) : i \in 0..(n - 1)})

\* C12: with at least N bytes left, readUint8 (N = 1), readUint16 (N = 2)
\* and readUint32 (N = 4) return the little-endian value of the next N bytes
\* and advance the cursor by exactly N; the value of readUint32 is never
\* negative and stays below 2^32.
C12_FixedWidthReads ==
  /\ (op = "readUint8" /\ Remaining >= 1) =>
       ret = RetNumber(LittleEndian(1)) /\ Consumed = 1
  /\ (op = "readUint16" /\ Remaining >= 2) =>
       ret = RetNumber(LittleEndian(2)) /\ Consumed = 2
  /\ (op = "readUint32" /\ Remaining >= 4) =>
       /\ ret = RetNumber(LittleEndian(4)) /\ Consumed = 4
       /\ ~ret.num.neg /\ ret.num.mag \subseteq 0..31

\* readUint32 of the bytes 01 80 01 FF at position 1 returned 0xFF018001
C12_Witness ==
  /\ op = "readUint32" /\ prev = 1 /\ Remaining = 4
  /\ At(Arr, 1) = 1 /\ At(Arr, 2) = 128 /\ At(Arr, 3) = 1 /\ At(Arr, 4) = 255
  /\ ret.kind = "number" /\ ~ret.num.neg
  /\ ret.num.mag = {0, 15, 16} \cup (24..31)
  /\ decoder.pos = 5


\* --------------------------------------------------- tag dispatch (SpecTag)
\* the eight bytes of the float64 pattern of pi, 0x400921FB54442D18
PiBytes == <<64, 9, 33, 251, 84, 68, 45, 24>>

\* what follows the tag byte: nothing; a zero (count 0, length 0, integer 0);
\* count 1 and the value undefined; count 1, key "a" and the value
\* undefined (also: length 1 and one byte); eight bytes
TagPayloads == {<<>>, <<0>>, <<1, 127>>, <<1, 1, 97, 127>>, PiBytes}

\* every byte value as the tag, and the array without any byte
TagStreams ==
  {<<>>} \cup {<<t>> \o p : t \in 0..255, p \in TagPayloads}

InitTag ==
  /\ \E b \in TagStreams : decoder = createDecoder(Uint8Array(b, 0, Len(b)))
  /\ op = "new"
  /\ NoObjects
  /\ NoComponent
  /\ arg = 0
  /\ prev = 0
  /\ ret = RetNone
  /\ nativeTextDecoder = TRUE
  /\ written = <<>>

NextTag == ReadAny \/ Skip8

SpecTag == InitTag /\ [][NextTag]_vars

\* the decoder the case function of readAny is applied to: the same array,
\* the cursor behind the tag byte
BehindTag == At_pos(decoder, prev + 1)

\* what the last operation did, as an outcome
Done == Outcome(decoder, ret)

\* C13: readAny at a tag byte 127..116 does what the case of that tag does
\* behind the tag byte (127 undefined, 126 null, 125 readVarInt, 124
\* readFloat32, 123 readFloat64, 122 readBigInt64, 121 false, 120 true, 119
\* readVarString, 118 an object or an error, 117 an array or an error, 116
\* readVarUint8Array); at any other byte, and where no byte is left, it
\* throws behind that byte and returns nothing.
C13_TagDispatch ==
  op = "readAny" =>
    LET tag == At(Arr, prev) IN
    /\ tag = 127 => Done = Outcome(BehindTag, RetUndefined)
    /\ tag = 126 => Done = Outcome(BehindTag, RetNull)
    /\ tag = 125 => Done = readVarInt(BehindTag)
    /\ tag = 124 => Done = readFloat32(BehindTag)
    /\ tag = 123 => Done = readFloat64(BehindTag)
    /\ tag = 122 => Done = readBigInt64(BehindTag)
    /\ tag = 121 => Done = Outcome(BehindTag, RetFalse)
    /\ tag = 120 => Done = Outcome(BehindTag, RetTrue)
    /\ tag = 119 => Done = readVarString(BehindTag)
    /\ tag = 118 => ret.kind \in {"object", "throw"}
    /\ tag = 117 => ret.kind \in {"array", "throw"}
    /\ tag = 116 => Done = readVarUint8Array(BehindTag)
    /\ tag \notin 116..127 => Done = Outcome(BehindTag, RetThrow("TypeError"))

\* tag 123 before the pattern of pi gave a float64 and left the cursor
\* behind the ninth byte
C13_Witness ==
  /\ op = "readAny" /\ prev = 0 /\ At(Arr, 0) = 123
  /\ ret.kind = "float64" /\ ~ret.num.neg
  /\ ret.num.mag = BigEndian(Uint8Array(PiBytes, 0, 8))
  /\ decoder.pos = 9


\* ----------------------------------------------------- arrays (SpecArray)
\* most elements of the array at the start of a stream of InitArray
MaxElems == 2

\* encodings of single values: undefined, null, the integer -1, true, the
\* string "a", the byte blob [7], the empty array, the array [false] and
\* the object {a: 1}
AnyChunks ==
  { <<127>>, <<126>>, <<125, 65>>, <<120>>, <<119, 1, 97>>, <<116, 1, 7>>,
    <<117, 0>>, <<117, 1, 121>>, <<118, 1, 1, 97, 125, 1>> }

RECURSIVE Concat(_)
\* the concatenation of a sequence of byte sequences
Concat(chunks) ==
  IF chunks = <<>> THEN <<>> ELSE Head(chunks) \o Concat(Tail(chunks))

\* the bytes of InitArray: tag 117, the count, the elements, and at most
\* MaxTrail bytes that belong to no element
InitArray ==
  /\ \E elems \in SeqsUpTo(AnyChunks, MaxElems), t \in SeqsUpTo({1, 127}, MaxTrail) :
       LET b == <<117, Len(elems)>> \o Concat(elems) \o t IN
       /\ written = elems
       /\ decoder = createDecoder(Uint8Array(b, 0, Len(b)))
  /\ op = "new"
  /\ NoObjects
  /\ NoComponent
  /\ arg = 0
  /\ prev = 0
  /\ ret = RetNone
  /\ nativeTextDecoder = TRUE

NextArray == ReadAny \/ Skip8

SpecArray == InitArray /\ [][NextArray]_vars

RECURSIVE Plain(_)
\* a value without the identity of the buffers its byte blobs are views of
Plain(r) ==
  [ kind |-> r.kind, num |-> r.num, bytes |-> Bytes(r.view), str |-> r.str,
    msg |-> r.msg,
    items |-> [i \in 1..Len(r.items) |->
                 IF r.kind = "object"
                 THEN [key |-> r.items[i].key, value |-> Plain(r.items[i].value)]
                 ELSE Plain(r.items[i])] ]

\* the decoding of an encoded value that stands alone in an array of its own
Alone(bytes) == readAny(createDecoder(Uint8Array(bytes, 0, Len(bytes)))).ret

\* C14: readAny at tag 117, count n and n encoded values returns an array
\* of exactly n elements, element i being the decoding of the i-th encoded
\* value (nested arrays and objects included), and leaves the cursor right
\* behind the last byte of the n-th element.
C14_ArrayElements ==
  (op = "readAny" /\ prev = 0) =>
    /\ ret.kind = "array"
    /\ Len(ret.items) = Len(written)
    /\ \A i \in 1..Len(written) : Plain(ret.items[i]) = Plain(Alone(written[i]))
    /\ decoder.pos = 2 + Len(Concat(written))

\* the stream 117 2 | 117 1 121 | 125 65 gave [[false], -1]
C14_Witness ==
  /\ op = "readAny" /\ prev = 0
  /\ written = << <<117, 1, 121>>, <<125, 65>> >>
  /\ ret.kind = "array"
  /\ ret.items = << RetArray(<<RetFalse>>), RetNumber(Num(TRUE, {0})) >>
  /\ decoder.pos = 7
  /\ decoder.arr.length = 8


\* ---------------------------------------------------- records (SpecRecord)
\* most entries of the record at the start of a stream of InitRecord
MaxEntries == 2

\* keys of the entries: "a", "b", "0", "1" and "__proto__"
RecordKeys == {<<97>>, <<98>>, <<48>>, <<49>>, ProtoKey}

\* encoded values of the entries: undefined, the integer 1, the array [false]
RecordValues == {<<127>>, <<125, 1>>, <<117, 1, 121>>}

\* the bytes of one entry: the key as a string (length, then the bytes of
\* the ASCII characters) and the encoded value
EntryBytes(e) == <<Len(e.key)>> \o e.key \o e.value

RECURSIVE ConcatEntries(_)
ConcatEntries(entries) ==
  IF entries = <<>> THEN <<>>
  ELSE EntryBytes(Head(entries)) \o ConcatEntries(Tail(entries))

\* the bytes of InitRecord: tag 118, the count, the entries
InitRecord ==
  /\ \E entries \in SeqsUpTo([key : RecordKeys, value : RecordValues], MaxEntries) :
       LET b == <<118, Len(entries)>> \o ConcatEntries(entries) IN
       /\ written = entries
       /\ decoder = createDecoder(Uint8Array(b, 0, Len(b)))
  /\ op = "new"
  /\ NoObjects
  /\ NoComponent
  /\ arg = 0
  /\ prev = 0
  /\ ret = RetNone
  /\ nativeTextDecoder = TRUE

NextRecord == ReadAny \/ Skip8

SpecRecord == InitRecord /\ [][NextRecord]_vars

\* the keys of the stream in the order of their first appearance
FirstKeys ==
  LET first == {i \in 1..Len(written) :
                  \A j \in 1..(i - 1) : written[j].key # written[i].key}
      Nth(k) == CHOOSE i \in first : Cardinality({j \in first : j < i}) = k - 1
  IN  [k \in 1..Cardinality(first) |-> written[Nth(k)].key]

\* the encoded value of the last entry of the stream with the given key
LastValue(key) ==
  LET i == CHOOSE i \in 1..Len(written) :
             /\ written[i].key = key
             /\ \A j \in (i + 1)..Len(written) : written[j].key # key
  IN  written[i].value

\* C15: readAny at tag 118, count n and n entries returns an object whose
\* keys are unique, are the keys of the stream in stream order, and are
\* mapped to the decoded values of their entries; n pairwise distinct keys
\* give exactly n properties.
C15_RecordEntries ==
  (op = "readAny" /\ prev = 0) =>
    /\ ret.kind = "object"
    /\ [i \in 1..Len(ret.items) |-> ret.items[i].key] = FirstKeys
    /\ \A i \in 1..Len(ret.items) :
         Plain(ret.items[i].value) = Plain(Alone(LastValue(ret.items[i].key)))
    /\ decoder.pos = 2 + Len(ConcatEntries(written))


\* --------------------------------------- every operation (SpecCursor)
\* longest array of InitCursor
MaxCursorLen == 4

\* byte values of InitCursor: 0x01 (a length, a count, a character), 0x7F
\* (the tag of undefined; the integer -63) and 0x80 (continuation flag; as
\* the fourth byte it makes bit 31 of a 32-bit value)
CursorBytes == {1, 127, 128}

InitCursor ==
  /\ \E b \in SeqsUpTo(CursorBytes, MaxCursorLen) :
       decoder = createDecoder(Uint8Array(b, 0, Len(b)))
  /\ op = "new"
  /\ NoObjects
  /\ NoComponent
  /\ arg = 0
  /\ prev = 0
  /\ ret = RetNone
  /\ nativeTextDecoder \in BOOLEAN
  /\ written = <<>>

NextCursor ==
  \/ Skip8 \/ ReadUint8 \/ ReadUint16 \/ ReadUint32
  \/ PeekUint8 \/ PeekUint16 \/ PeekUint32
  \/ ReadVarUint \/ ReadVarInt \/ PeekVarUint \/ PeekVarInt
  \/ ReadUint8Array \/ ReadVarUint8Array \/ ReadTailAsUint8Array
  \/ ReadVarString \/ PeekVarString
  \/ ReadAny
  \/ Clone \/ CloneAt

SpecCursor == InitCursor /\ [][NextCursor]_vars

PeekOps ==
  {"peekUint8", "peekUint16", "peekUint32", "peekVarUint", "peekVarInt",
   "peekVarString"}

\* the read operation a peek looks ahead for
ReadOf(peek) ==
  CASE peek = "peekUint8" -> "readUint8"
    [] peek = "peekUint16" -> "readUint16"
    [] peek = "peekUint32" -> "readUint32"
    [] peek = "peekVarUint" -> "readVarUint"
    [] peek = "peekVarInt" -> "readVarInt"
    [] peek = "peekVarString" -> "readVarString"

\* C17: a peek that returns leaves the decoder as it was, and the matching
\* read performed right after a peek that returned returns the value the
\* peek returned.
C17_PeekEqualsRead ==
  [][ /\ (op' \in PeekOps /\ Returned(ret')) => decoder' = decoder
      /\ (op \in PeekOps /\ Returned(ret) /\ op' = ReadOf(op)) => ret' = ret
    ]_vars

\* peekUint32 of the bytes 01 7F 01 80 returned 0x80017F01 and left the
\* cursor where it was
C17_Witness ==
  /\ op = "peekUint32" /\ prev = 0 /\ decoder.pos = 0
  /\ Bytes(Arr) = <<1, 127, 1, 128>>
  /\ ret = RetNumber(Num(FALSE, {0, 8, 9, 10, 11, 12, 13, 14, 16, 31}))


\* the read operations: each consumes what it reads
ReadOps ==
  {"readUint8", "readUint16", "readUint32", "skip8", "readVarUint",
   "readVarInt", "readUint8Array", "readVarUint8Array",
   "readTailAsUint8Array", "readVarString", "readAny"}

\* the read operations that read at least one byte whenever they return
ConsumingOps ==
  {"readUint8", "readUint16", "readUint32", "skip8", "readVarUint",
   "readVarInt", "readVarUint8Array", "readVarString", "readAny"}

\* C20: a read operation that returned left the cursor where it was or
\* further on, and further on when it reads at least one byte (readUint8Array
\* with len > 0 included); a cursor that is smaller than before the last
\* operation is the cursor of a clone made with an explicit position (the
\* claim also allows a peek here).
C20_MonotonicCursor ==
  /\ (op \in ReadOps /\ Returned(ret)) => decoder.pos >= prev
  /\ (op \in ConsumingOps /\ Returned(ret)) => decoder.pos > prev
  /\ (op = "readUint8Array" /\ arg > 0 /\ Returned(ret)) => decoder.pos = prev + arg
  /\ decoder.pos < prev => op \in PeekOps \cup {"clone(newPos)"}

\* after earlier reads had moved the cursor to 2, readUint8Array(decoder, 2)
\* returned and moved it to 4
C20_Witness ==
  /\ op = "readUint8Array" /\ arg = 2 /\ prev = 2
  /\ ret.kind = "Uint8Array"
  /\ decoder.pos = 4


\* ---------------------------------------------- failing elements (SpecFail)
\* byte sequences at which readAny throws when nothing follows them, with
\* the error: an unknown tag; a blob whose length has six continuation
\* bytes; a string of declared length 5 with one byte; an array holding an
\* unknown tag; an object whose value is a blob of declared length 3 with
\* one byte; no byte at all
BadChunks ==
  { [bytes |-> <<115>>, msg |-> "TypeError"],
    [bytes |-> <<116, 128, 128, 128, 128, 128, 128>>, msg |-> "Integer out of range!"],
    [bytes |-> <<119, 5, 97>>, msg |-> "RangeError"],
    [bytes |-> <<117, 1, 115>>, msg |-> "TypeError"],
    [bytes |-> <<118, 1, 1, 97, 116, 3, 7>>, msg |-> "RangeError"],
    [bytes |-> <<>>, msg |-> "TypeError"] }

\* the elements of an array as the entries of an object: the k-th value
\* under the key "a", "b", ...
AsEntries(chunks) ==
  [k \in 1..Len(chunks) |-> [key |-> <<96 + k>>, value |-> chunks[k]]]

\* the bytes of InitFail: an array (117) or an object (118) whose count is
\* the number of its values, the last of which is a failing one
InitFail ==
  /\ \E good \in SeqsUpTo(AnyChunks, MaxElems), bad \in BadChunks, tag \in {117, 118} :
       LET chunks == Append(good, bad.bytes)
           b == <<tag, Len(chunks)>> \o
                (IF tag = 117 THEN Concat(chunks) ELSE ConcatEntries(AsEntries(chunks)))
       IN  /\ written = <<[good |-> good, bad |-> bad]>>
           /\ decoder = createDecoder(Uint8Array(b, 0, Len(b)))
  /\ op = "new"
  /\ NoObjects
  /\ NoComponent
  /\ arg = 0
  /\ prev = 0
  /\ ret = RetNone
  /\ nativeTextDecoder = TRUE

NextFail == ReadAny \/ Skip8

SpecFail == InitFail /\ [][NextFail]_vars

\* the index in the array of the first byte of the failing value
BadStart ==
  2 + (IF At(Arr, 0) = 117 THEN Len(Concat(written[1].good))
       ELSE Len(ConcatEntries(AsEntries(written[1].good))) + 2)

\* where readAny leaves the cursor when it throws at the failing value
\* standing alone
BadStop ==
  LET b == written[1].bad.bytes
  IN  readAny(createDecoder(Uint8Array(b, 0, Len(b)))).decoder.pos

\* C18: readAny of an array or object whose last value fails (unknown tag,
\* varint out of range, a length beyond the buffer, also one level further
\* down) throws the error of that value; it returns no array or object, and
\* the cursor is where the failing step left it.
C18_FailureIsTotal ==
  (op = "readAny" /\ prev = 0) =>
    /\ ret = RetThrow(written[1].bad.msg)
    /\ decoder.pos = BadStart + BadStop

\* the array 117 2 | 120 | 118 1 1 97 116 3 7: the blob inside the object
\* inside the array is too long, and readAny threw the RangeError
C18_Witness ==
  /\ op = "readAny" /\ prev = 0
  /\ Bytes(Arr) = <<117, 2, 120, 118, 1, 1, 97, 116, 3, 7>>
  /\ ret = RetThrow("RangeError")
  /\ decoder.pos = 9


\* --------------------------------------- two references (SpecClone)
\* longest array of InitClone
MaxCloneLen == 3

\* byte values of InitClone: 0x01 and 0x7F (the tag of undefined)
CloneBytes == {1, 127}

\* clone(decoder, newPos) returning the decoder it was given, moved to newPos
cloneObject_Alias(h, ref, newPos) ==
  [heap |-> [h EXCEPT ![ref] = At_pos(h[ref], newPos)], ref |-> ref]

\* clone(decoder, newPos) on the objects: createDecoder makes a new Decoder
\* object, and the reference to that object is returned
cloneObject(h, ref, newPos) ==
  [heap |-> Append(h, clone(h[ref], newPos)), ref |-> Len(h) + 1]

Handles == {"original", "clone"}

InitClone ==
  /\ \E b \in SeqsUpTo(CloneBytes, MaxCloneLen) :
       /\ decoder = createDecoder(Uint8Array(b, 0, Len(b)))
       /\ heap = <<createDecoder(Uint8Array(b, 0, Len(b)))>>
  /\ refs = [original |-> 1, clone |-> 0]
  /\ target = "none"
  /\ last = [original |-> NoCall, clone |-> NoCall]
  /\ NoComponent
  /\ op = "new"
  /\ arg = 0
  /\ prev = 0
  /\ ret = RetNone
  /\ nativeTextDecoder = TRUE
  /\ written = <<>>

\* the references that point to an object
Held == {h \in Handles : refs[h] # 0}

\* the object reference h points to
Deref(h) == heap[refs[h]]

\* the holder of reference h invokes operation `name`, whose outcome on the
\* object the reference points to is o
On(h, name, a, o) ==
  /\ Deref(h).pos <= MaxPos
  /\ heap' = [heap EXCEPT ![refs[h]] = o.decoder]
  /\ decoder' = o.decoder
  /\ ret' = o.ret
  /\ last' = [last EXCEPT ![h] =
                [op |-> name, arg |-> a, prev |-> Deref(h).pos,
                 ret |-> o.ret, pos |-> o.decoder.pos]]
  /\ op' = name
  /\ arg' = a
  /\ prev' = Deref(h).pos
  /\ target' = h
  /\ UNCHANGED <<refs, nativeTextDecoder, written, component, definer>>

OnReadUint8 == \E h \in Held : On(h, "readUint8", 0, readUint8(Deref(h)))
OnReadUint16 == \E h \in Held : On(h, "readUint16", 0, readUint16(Deref(h)))
OnReadVarString ==
  \E h \in Held : On(h, "readVarString", 0, readVarString(Deref(h)))
OnPeekVarString ==
  \E h \in Held : On(h, "peekVarString", 0, peekVarString(Deref(h)))
OnReadAny == \E h \in Held : On(h, "readAny", 0, readAny(Deref(h)))

\* the holder of the original calls clone and keeps the reference returned
CloneObject(name, newPos) ==
  LET c == cloneObject(heap, refs.original, newPos) IN
  /\ refs.clone = 0
  /\ heap' = c.heap
  /\ refs' = [refs EXCEPT !.clone = c.ref]
  /\ decoder' = c.heap[c.ref]
  /\ ret' = RetDecoder(c.heap[c.ref].pos)
  /\ op' = name
  /\ arg' = newPos
  /\ prev' = heap[refs.original].pos
  /\ target' = "original"
  /\ UNCHANGED <<last, nativeTextDecoder, written, component, definer>>

\* clone(decoder)
CloneDefault == CloneObject("clone", heap[refs.original].pos)

\* clone(decoder, newPos)
CloneExplicit ==
  \E newPos \in 0..heap[refs.original].arr.length :
    CloneObject("clone(newPos)", newPos)

NextClone ==
  \/ OnReadUint8 \/ OnReadUint16 \/ OnReadVarString \/ OnPeekVarString
  \/ OnReadAny
  \/ CloneDefault \/ CloneExplicit

SpecClone == InitClone /\ [][NextClone]_vars

\* the other reference
Other(h) == IF h = "original" THEN "clone" ELSE "original"

\* C16: clone gives a Decoder over the same array at newPos (at the
\* position of the original when newPos is omitted) and leaves the original
\* as it was; from then on an operation invoked on one of the two leaves
\* the position of the other unchanged, and no operation changes the bytes
\* of either.
C16_CloneIndependent ==
  [][ /\ op' \in {"clone", "clone(newPos)"} =>
           /\ refs'.clone # 0
           /\ heap'[refs'.clone].arr = heap[refs.original].arr
           /\ heap'[refs'.clone].pos = arg'
           /\ (op' = "clone" => heap'[refs'.clone].pos = heap[refs.original].pos)
           /\ heap'[refs'.original] = heap[refs.original]
      /\ (op' \notin {"clone", "clone(newPos)"} /\ refs[Other(target')] # 0) =>
           heap'[refs'[Other(target')]].pos = heap[refs[Other(target')]].pos
      /\ \A r \in 1..Len(heap) : heap'[r].arr = heap[r].arr
    ]_vars

\* the original is at 1 and its clone, made at position 0, has just read
\* two bytes
C16_Witness ==
  /\ refs.clone # 0 /\ refs.clone # refs.original
  /\ target = "clone" /\ op = "readUint16"
  /\ last.original.op = "readUint8"
  /\ heap[refs.original].pos = 1
  /\ heap[refs.clone].pos = 2
  /\ heap[refs.clone].arr = heap[refs.original].arr


MaxBlobLen == 2

\* bytes of the regions: "a", and the two bytes of U+00E9 (0xC3 0xA9), each
\* of which alone is malformed UTF-8
BlobBytes == {97, 195, 169}

\* the length prefixes of L: the one-byte form and a two-byte form whose
\* second byte adds nothing
Prefixes(L) == {<<L>>, <<128 + L, 0>>}

\* the bytes of InitBlob: a backing buffer that holds up to MaxOffset bytes
\* (0x07) before the array; the array is a length prefix, the region and
\* up to MaxTrail bytes behind it
InitBlob ==
  /\ \E lead \in SeqsUpTo({7}, MaxOffset), region \in SeqsUpTo(BlobBytes, MaxBlobLen),
        t \in SeqsUpTo({1}, MaxTrail) :
       \E prefix \in Prefixes(Len(region)) :
         /\ written = <<prefix, region>>
         /\ decoder = createDecoder(
              Uint8Array(lead \o prefix \o region \o t, Len(lead),
                         Len(prefix) + Len(region) + Len(t)))
  /\ op = "new"
  /\ NoObjects
  /\ NoComponent
  /\ arg = 0
  /\ prev = 0
  /\ ret = RetNone
  /\ nativeTextDecoder \in BOOLEAN

NextBlob == ReadVarUint8Array \/ ReadVarString \/ PeekVarString \/ Skip8

SpecBlob == InitBlob /\ [][NextBlob]_vars

\* the position just behind the length prefix that starts at 0
BehindPrefix == Len(written[1])

\* the declared length
Declared == Len(written[2])

\* arr[p .. p + L)
Region == [i \in 1..Declared |-> At(Arr, BehindPrefix + i - 1)]

\* C21: readVarUint8Array and readVarString at a length prefix L followed
\* by L bytes of the array take exactly arr[p .. p + L), p being the
\* position behind the prefix, and leave the cursor at p + L; the blob is
\* the window [byteOffset + p, byteOffset + p + L) of the array's own
\* buffer, and the string is the decoding of those bytes.
C21_LengthPrefixed ==
  /\ (op = "readVarUint8Array" /\ prev = 0) =>
       /\ ret.kind = "Uint8Array"
       /\ Bytes(ret.view) = Region
       /\ ret.view = Uint8Array(Arr.buffer, Arr.byteOffset + BehindPrefix, Declared)
       /\ decoder.pos = BehindPrefix + Declared
  /\ (op = "readVarString" /\ prev = 0) =>
       /\ decoder.pos = BehindPrefix + Declared
       /\ Returned(ret) => ret = RetString(Utf8CodePoints(Region))
       /\ Threw(ret) => ~Utf8WellFormed(Region) /\ ~nativeTextDecoder

\* in the buffer 07 82 00 C3 A9 01 the array starts at 1; the blob behind the
\* two-byte prefix is the window [3, 5) of that buffer
C21_Witness ==
  /\ op = "readVarUint8Array" /\ prev = 0
  /\ Arr.buffer = <<7, 130, 0, 195, 169, 1>> /\ Arr.byteOffset = 1
  /\ ret.view = Uint8Array(Arr.buffer, 3, 2)
  /\ Bytes(ret.view) = <<195, 169>>
  /\ decoder.pos = 4


\* C22: on every stream and at every position - also where only
\* continuation-flagged bytes follow and where the data ends inside the
\* varint - readVarUint comes to an end, returning a number or throwing,
\* after reading at least 1 and at most 6 bytes, and readVarInt after at
\* least 1 and at most 7.
C22_VarintTerminates ==
  /\ op = "readVarUint" =>
       ret.kind \in {"number", "throw"} /\ Consumed >= 1 /\ Consumed <= 6
  /\ op = "readVarInt" =>
       ret.kind \in {"number", "throw"} /\ Consumed >= 1 /\ Consumed <= 7

\* the data ended behind three continuation-flagged bytes: readVarInt went
\* on over the missing bytes and threw after 7 reads
C22_Witness ==
  /\ op = "readVarInt" /\ prev = 0
  /\ Arr.length = 3 /\ StartsWithConts(3)
  /\ ret = RetThrow("Integer out of range!")
  /\ Consumed = 7


\* ------------------------------------------ DataView reads (SpecView)
\* longest backing buffer of InitView
MaxViewLen == 9

\* the byte every position of a buffer of InitView holds: 0x40 (the float
\* patterns 0x40404040..) or 0xFF (a NaN pattern; the 64-bit integers -1
\* and 2^64 - 1)
ViewBytes == {64, 255}

\* the decoders of InitView: every window of a buffer filled with one byte
\* value, starting at most MaxOffset bytes into the buffer and ending at
\* most MaxSlack bytes before its end
InitView ==
  /\ \E v \in ViewBytes, n \in 0..MaxViewLen, o \in 0..MaxOffset, s \in 0..MaxSlack :
       /\ o + s <= n
       /\ decoder = createDecoder(Uint8Array([i \in 1..n |-> v], o, n - o - s))
  /\ op = "new"
  /\ NoObjects
  /\ NoComponent
  /\ arg = 0
  /\ prev = 0
  /\ ret = RetNone
  /\ nativeTextDecoder = TRUE
  /\ written = <<>>

NextView ==
  \/ ReadFloat32 \/ ReadFloat64 \/ ReadBigInt64 \/ ReadBigUint64
  \/ ReadUint8Array \/ Skip8

SpecView == InitView /\ [][NextView]_vars

\* the bytes the backing buffer holds from the position the last operation
\* was invoked at
InBuffer == Len(Arr.buffer) - (Arr.byteOffset + prev)

\* the number of bytes the last operation asks for
Requested ==
  CASE op = "readFloat32" -> 4
    [] op \in {"readFloat64", "readBigInt64", "readBigUint64"} -> 8
    [] op = "readUint8Array" -> arg
    [] OTHER -> 0

ViewOps ==
  {"readFloat32", "readFloat64", "readBigInt64", "readBigUint64",
   "readUint8Array"}

\* C23: readFloat32, readFloat64, readBigInt64 and readBigUint64 that
\* return have moved the cursor by exactly 4, 8, 8 and 8, and
\* readUint8Array(decoder, len) by exactly len; when the backing buffer
\* holds fewer bytes than that from the current position, they throw and
\* leave the cursor where it was.
C23_ViewReads ==
  op \in ViewOps =>
    /\ Returned(ret) => Consumed = Requested
    /\ InBuffer < Requested => Threw(ret) /\ decoder.pos = prev

\* seven bytes 0xFF are left in the backing buffer at position 1:
\* readBigInt64 threw a RangeError and the cursor is still at 1
C23_Witness ==
  /\ op = "readBigInt64" /\ prev = 1
  /\ InBuffer = 7
  /\ ret = RetThrow("RangeError")
  /\ decoder.pos = 1


\* ------------------------------------------------ hasContent (SpecContent)
NextContent ==
  \/ HasContent \/ Skip8 \/ ReadUint8 \/ ReadVarUint
  \/ ReadUint8Array \/ ReadTailAsUint8Array

SpecContent == InitCursor /\ [][NextContent]_vars

\* arr[prev .. length)
RestOfArray == [i \in 1..(Arr.length - prev) |-> At(Arr, prev + i - 1)]

\* C24: hasContent returns true exactly while pos < arr.length;
\* readTailAsUint8Array returns arr[pos .. length) and leaves a decoder
\* without content; and a read operation on a decoder without content
\* leaves it without content.
C24_HasContent ==
  /\ [](op = "hasContent" => (ret = RetTrue <=> decoder.pos < Arr.length))
  /\ []((op = "readTailAsUint8Array" /\ Returned(ret)) =>
          /\ Bytes(ret.view) = RestOfArray
          /\ decoder.pos = Arr.length
          /\ ~hasContent(decoder))
  /\ [][(~hasContent(decoder) /\ op' \in ReadOps) => ~hasContent(decoder')]_vars


\* ------------------------------------------------- component (src/set.js)
\* JavaScript values of a state key or an attribute: v is `${val}`, the text
\* of the value
JsUndefined == [t |-> "undefined", v |-> "undefined"]
JsNull == [t |-> "null", v |-> "null"]
JsBoolean(b) == [t |-> "boolean", v |-> IF b THEN "true" ELSE "false"]
JsNumber(text) == [t |-> "number", v |-> text]
JsString(text) == [t |-> "string", v |-> text]
JsNaN == JsNumber("NaN")

\* an object with one own property, the state key the component reflects;
\* id is its identity: two references are the same object iff the ids agree
JsObject(id, val) == [t |-> "object", id |-> id, v |-> val]

\* object.assign({}, ..., {key: val}): another object, which holds the key
assign(id, val) == JsObject(id, val)

\* a === b
StrictEquals(a, b) == a = b /\ a # JsNaN

\* a === b of a state, which is an object or null
SameReference(a, b) == a.t = b.t /\ (a.t = "object" => a.id = b.id)

\* val + ''
TextOf(val) == val.v

\* the truthiness of val
ToBoolean(val) ==
  val \notin {JsUndefined, JsNull, JsBoolean(FALSE), JsNumber("0"), JsNaN,
              JsString("")}

\* the values a state key takes in a configuration or in a caller's update
StateValues ==
  {JsUndefined, JsNull, JsBoolean(TRUE), JsBoolean(FALSE), JsNumber("0"),
   JsNumber("4"), JsNaN, JsString(""), JsString("a"), JsString("4")}

\* the texts a page or a caller writes to the attribute
AttributeValues == {"", "a", "4", "4.0", "null", "true", "\"a\""}

\* the texts that start with a number, with the text of that number
NumberTexts == [text \in {"0", "4", "4.0"} |-> IF text = "0" THEN "0" ELSE "4"]

\* the strings of the model
Texts == {val.v : val \in {s \in StateValues : s.t = "string"}}
           \cup AttributeValues

\* Number.parseFloat(val)
parseFloat(val) ==
  IF TextOf(val) \in DOMAIN NumberTexts
  THEN JsNumber(NumberTexts[TextOf(val)])
  ELSE JsNaN

\* json.stringify(val), of a value whose text needs no escape
stringify(val) ==
  CASE val.t = "undefined" -> JsUndefined
    [] val.t = "number" ->
         IF val = JsNaN THEN JsString("null") ELSE JsString(val.v)
    [] val.t = "string" -> JsString("\"" \o val.v \o "\"")
    [] OTHER -> JsString(val.v)

\* the completion of an evaluation: the value returned, or the exception
Normal(val) == [threw |-> "", val |-> val]
Abrupt(name) == [threw |-> name, val |-> JsUndefined]

\* json.parse(val)
parse(val) ==
  LET text == TextOf(val) IN
  CASE text = "null" -> Normal(JsNull)
    [] text \in {"true", "false"} -> Normal(JsBoolean(text = "true"))
    [] text \in DOMAIN NumberTexts -> Normal(JsNumber(NumberTexts[text]))
    [] \E s \in Texts : text = "\"" \o s \o "\"" ->
         Normal(JsString(CHOOSE s \in Texts : text = "\"" \o s \o "\""))
    [] OTHER -> Abrupt("SyntaxError")

\* the attribute types of CONF.attrs; "none" is a component without attrs
AttrTypes == {"json", "string", "number", "bool"}

encodeAttrVal(val, type) ==
  IF type = "json" THEN TextOf(stringify(val)) ELSE TextOf(val)

parseAttrVal(val, type) ==
  CASE type = "json" -> parse(val)
    [] type = "number" -> Normal(parseFloat(val))
    [] type = "string" -> Normal(val)
    [] type = "bool" -> Normal(JsBoolean(val # JsNull))
    [] OTHER -> Normal(JsNull)


\* new Lib0Component() of createComponent(name, {state, attrs}): attrs is {}
\* ("none") or maps one key to a type; the state holds that key
construct(type, val) ==
  [created |-> TRUE,
   attrs |-> type,
   _init |-> FALSE,
   state |-> assign(1, val),
   next |-> 2,              \* the identity of the next object created
   attribute |-> JsNull,    \* getAttribute(key): a string, or null if absent
   isConnected |-> FALSE,   \* is the element in a document
   registered |-> 0,        \* how often the listeners were registered
   log |-> <<>>,            \* the arguments of each onStateChange call
   reported |-> <<>>,       \* the exceptions of callbacks the DOM invoked
   threw |-> ""]            \* the exception that is propagating, if any

\* the exception `name` leaves the function that is executing
Throw(c, name) == [c EXCEPT !.threw = name]

\* what a state is, whichever object holds it: null, or the value of the
\* reflected key
Contents(state) == IF state.t = "null" THEN JsNull ELSE JsObject(0, state.v)

\* setState and the callbacks it reaches call each other; stack holds the
\* calls of updateState that have not returned
RECURSIVE setState(_, _, _, _)

updateState(c, stateUpdate, stack) ==
  LET frame == <<Contents(c.state), stateUpdate, c.attribute>> IN
  IF frame \in stack
  THEN \* the same call with the same state below itself: the recursion
       \* never returns and ends when the call stack is exhausted
       Throw(c, "RangeError")
  ELSE setState([c EXCEPT !.next = @ + 1], assign(c.next, stateUpdate),
                FALSE, stack \cup {frame})

attributeChangedCallback(c, newVal, stack) ==
  LET curState == c.state
      type == c.attrs
      parsedVal == parseAttrVal(newVal, type)
  IN
  IF parsedVal.threw # "" THEN Throw(c, parsedVal.threw)
  ELSE IF curState.t = "null" THEN Throw(c, "TypeError")
  ELSE IF /\ type # "json" \/ ~StrictEquals(stringify(curState.v), newVal)
          /\ ~StrictEquals(curState.v, parsedVal.val)
  THEN updateState(c, parsedVal.val, stack)
  ELSE c

\* the DOM runs attributeChangedCallback before setAttribute returns and
\* reports, never rethrows, an exception of the callback
reaction(c) ==
  IF c.threw = "" THEN c
  ELSE [c EXCEPT !.reported = Append(@, c.threw), !.threw = ""]

\* this.setAttribute(normalizedKey, value) of an observed attribute
setAttribute(c, value, stack) ==
  reaction(attributeChangedCallback(
    [c EXCEPT !.attribute = JsString(value)], JsString(value), stack))

\* this.removeAttribute(normalizedKey): nothing happens if it is absent
removeAttribute(c, stack) ==
  IF c.attribute = JsNull THEN c
  ELSE reaction(attributeChangedCallback(
         [c EXCEPT !.attribute = JsNull], JsNull, stack))

setState(c, state, forceStateUpdates, stack) ==
  LET prevState == c.state
      assigned == [c EXCEPT !.state = state]
      notified ==
        [assigned EXCEPT !.log = Append(@, [state |-> Contents(state),
                                            prevState |-> Contents(prevState)])]
  IN
  IF c._init /\ (~SameReference(state, prevState) \/ forceStateUpdates)
  THEN IF c.attrs = "none" THEN notified
       ELSE IF state.t = "null" THEN Throw(notified, "TypeError")
       ELSE IF prevState.t = "null" \/ ~StrictEquals(prevState.v, state.v)
       THEN IF c.attrs = "bool"
            THEN IF ToBoolean(state.v)
                 THEN setAttribute(notified, "", stack)
                 ELSE removeAttribute(notified, stack)
            ELSE setAttribute(notified, encodeAttrVal(state.v, c.attrs), stack)
       ELSE notified
  ELSE assigned

\* connectedCallback without the _init flag: every connection initialises
connectedCallback_Again(c) ==
  LET started == [c EXCEPT !._init = TRUE]
      startState == c.state
      val == parseAttrVal(c.attribute, c.attrs)
      first(s) ==
        setState([started EXCEPT !.registered = @ + 1, !.state = JsNull],
                 s, FALSE, {})
  IN
  IF c.attrs = "none" THEN first(startState)
  ELSE IF val.threw # "" THEN Throw(started, val.threw)
  ELSE IF ~ToBoolean(val.val) THEN first(startState)
  ELSE IF startState.t = "null" THEN Throw(started, "TypeError")
  ELSE first([startState EXCEPT !.v = val.val])

connectedCallback(c) ==
  IF c._init THEN c
  ELSE
    LET started == [c EXCEPT !._init = TRUE]
        startState == c.state
        val == parseAttrVal(c.attribute, c.attrs)
        first(s) ==
          setState([started EXCEPT !.registered = @ + 1, !.state = JsNull],
                   s, FALSE, {})
    IN
    IF c.attrs = "none" THEN first(startState)
    ELSE IF val.threw # "" THEN Throw(started, val.threw)
    ELSE IF ~ToBoolean(val.val) THEN first(startState)
    ELSE IF startState.t = "null" THEN Throw(started, "TypeError")
    ELSE first([startState EXCEPT !.v = val.val])

disconnectedCallback(c) == setState(c, JsNull, FALSE, {})


\* the page holds one element of one component and no decoder
NoDecoder ==
  /\ decoder = createDecoder(Uint8Array(<<>>, 0, 0))
  /\ NoObjects
  /\ prev = 0
  /\ ret = RetNone
  /\ nativeTextDecoder = TRUE
  /\ written = <<>>

InitComponent ==
  /\ component \in
       {construct("none", JsUndefined)}
         \cup {construct(type, val) : type \in AttrTypes, val \in StateValues}
  /\ definer = [created |-> FALSE]
  /\ op = "new"
  /\ arg = 0
  /\ NoDecoder

\* a callback or method of the element starts: nothing was observed yet
begin(c) == [c EXCEPT !.log = <<>>, !.reported = <<>>, !.threw = ""]

\* the objects that are no longer referenced are gone: the state is the
\* only object left
collect(c) ==
  [c EXCEPT !.state = IF @.t = "null" THEN @ ELSE JsObject(1, @.v),
            !.next = 2]

\* callback or method `name` of the element ran with argument a and left
\* the element as c
Handled(name, a, c) ==
  /\ component.created
  /\ component' = collect(c)
  /\ op' = name
  /\ arg' = a
  /\ UNCHANGED <<decoder, prev, ret, nativeTextDecoder, written,
                 heap, refs, target, last, definer>>

\* the element is inserted into a document
ConnectedCallback ==
  /\ component.created
  /\ ~component.isConnected
  /\ Handled("connectedCallback", 0,
             reaction(connectedCallback(
               [begin(component) EXCEPT !.isConnected = TRUE])))

\* the element is removed from its document
DisconnectedCallback ==
  /\ component.created
  /\ component.isConnected
  /\ Handled("disconnectedCallback", 0,
             reaction(disconnectedCallback(
               [begin(component) EXCEPT !.isConnected = FALSE])))

\* a caller or the parser sets the observed attribute
SetAttribute ==
  \E value \in AttributeValues :
    Handled("setAttribute", 0, setAttribute(begin(component), value, {}))

\* a caller removes the observed attribute
RemoveAttribute ==
  Handled("removeAttribute", 0, removeAttribute(begin(component), {}))

\* the state a caller passes to setState: the object the element holds
\* ("this.state"), null, or another object
StateArgument(c, kind, val) ==
  CASE kind = "this.state" -> c.state
    [] kind = "null" -> JsNull
    [] OTHER -> JsObject(c.next, val)

\* a caller invokes element.setState(state, forceStateUpdates)
SetState ==
  \E kind \in {"this.state", "null", "object"}, val \in StateValues,
     forceStateUpdates \in BOOLEAN :
    Handled("setState",
            [state |-> kind, forceStateUpdates |-> forceStateUpdates],
            setState([begin(component) EXCEPT !.next = @ + 1],
                     StateArgument(component, kind, val),
                     forceStateUpdates, {}))

\* a caller invokes element.updateState({key: val})
UpdateState ==
  \E val \in StateValues :
    Handled("updateState", 0, updateState(begin(component), val, {}))

NextComponent ==
  \/ ConnectedCallback
  \/ DisconnectedCallback
  \/ SetAttribute
  \/ RemoveAttribute
  \/ SetState
  \/ UpdateState

SpecComponent == InitComponent /\ [][NextComponent]_vars


\* ------------------------------------------------------------------ C25
\* the setState call of this step passes a state that is not the object (or
\* the null) the element holds
OtherReference ==
  \/ arg'.state = "object"
  \/ arg'.state = "null" /\ component.state.t = "object"

\* the setState call of this step may notify: the element was initialised
\* and the state is another reference or the update is forced
MayNotify == component._init /\ (OtherReference \/ arg'.forceStateUpdates)

\* this step is the first connectedCallback of the element
FirstConnect == op' = "connectedCallback" /\ ~component._init

\* C25: setState invokes onStateChange (and pushes child states, slots and
\* attributes) only if connectedCallback has run and the new state is
\* another reference or forceStateUpdates is true; every other setState call
\* only replaces this.state; the first connectedCallback invokes
\* onStateChange exactly once, with prevState = null
C25_SetStateNotifies ==
  /\ [][(op' = "setState" /\ component'.log # <<>>) => MayNotify]_vars
  /\ [][(op' = "setState" /\ ~MayNotify)
          => component' = [begin(component) EXCEPT !.state = component'.state]]_vars
  /\ [][FirstConnect => /\ Len(component'.log) = 1
                        /\ component'.log[1].prevState = JsNull]_vars


\* ------------------------------------------------------------------ C26
\* this step is a connectedCallback of an element that was initialised
LaterConnect == op' = "connectedCallback" /\ component._init

\* C26: the initialisation (listener registration, attribute parsing, first
\* setState) runs at most once per element over any sequence of
\* connectedCallback and disconnectedCallback: disconnectedCallback sets the
\* state to null, and a later connectedCallback performs no initialisation,
\* invokes no onStateChange and leaves the state null
C26_InitialisedOnce ==
  /\ [](component.registered <= 1)
  /\ [][op' = "disconnectedCallback" => component'.state = JsNull]_vars
  /\ [][LaterConnect => /\ component'.registered = component.registered
                        /\ component'.log = <<>>
                        /\ component'.state = component.state]_vars
  /\ [][(op = "disconnectedCallback" /\ op' = "connectedCallback")
          => component'.state = JsNull]_vars

\* an element that reflected "a" to its attribute when it was connected
\* first was disconnected and is connected again: its state is still null
C26_Witness ==
  /\ op = "connectedCallback"
  /\ component.registered = 1
  /\ component.attrs = "string"
  /\ component.attribute = JsString("a")
  /\ component.state = JsNull
  /\ component.log = <<>>
  /\ component.reported = <<>>


\* ------------------------------------------------------------------ C27
\* the first setState of this step notified and wrote a changed state key
\* to the attribute
Reflected ==
  /\ op' \in {"setState", "updateState", "connectedCallback"}
  /\ component.attrs # "none"
  /\ component'.log # <<>>
  /\ LET first == component'.log[1] IN
       /\ first.state.t = "object"
       /\ \/ first.prevState.t = "null"
          \/ ~StrictEquals(first.prevState.v, first.state.v)

\* the chain of calls of the last step returned before the call stack was
\* exhausted
Finite(c) == \A i \in DOMAIN c.reported : c.reported[i] # "RangeError"

\* the state key is what the attribute encodes, or encodes to the attribute
Consistent(c) ==
  /\ c.state.t = "object"
  /\ IF c.attrs = "bool"
     THEN ToBoolean(c.state.v) = (c.attribute # JsNull)
     ELSE \/ c.attribute = JsString(encodeAttrVal(c.state.v, c.attrs))
          \/ LET val == parseAttrVal(c.attribute, c.attrs) IN
               val.threw = "" /\ StrictEquals(c.state.v, val.val)

\* C27: attribute reflection terminates: when setState of a connected
\* component writes a changed state key to its attribute and the write
\* triggers attributeChangedCallback, the chain of updateState, setState and
\* setAttribute calls is finite for every attribute type and state value,
\* and ends with the state key consistent with the attribute
C27_ReflectionTerminates ==
  [][Reflected => Finite(component') /\ Consistent(component')]_vars


\* ---------------------------------------------- createComponentDefiner
\* how many invocations of one definer the model follows
MaxDefines == 3

\* the definers: the two of this file, and one that defines its component
\* and returns nothing
Definers == {"lib0-list", "lib0-lazy", "nothing"}

\* the value the n-th invocation of a definer returns: the class that
\* createComponent returned, or undefined
definerResult(name, n) ==
  IF name = "nothing" THEN JsUndefined
  ELSE [t |-> "class", v |-> name, id |-> n]

\* createComponentDefiner(definer): the closure of the function returned
createComponentDefiner(name) ==
  [created |-> TRUE,
   definer |-> name,
   defined |-> JsNull,
   produced |-> <<>>,        \* what each invocation of definer returned
   returned |-> JsUndefined] \* what the last call of the function returned

\* a call of the function createComponentDefiner returned
callDefiner(d) ==
  IF ~ToBoolean(d.defined)
  THEN LET val == definerResult(d.definer, Len(d.produced) + 1) IN
       [d EXCEPT !.defined = val, !.produced = Append(@, val),
                 !.returned = val]
  ELSE [d EXCEPT !.returned = d.defined]

\* a caller asks for the component
Define ==
  /\ definer.created
  /\ Len(definer.produced) < MaxDefines
  /\ definer' = callDefiner(definer)
  /\ op' = "define"
  /\ arg' = 0
  /\ UNCHANGED <<decoder, prev, ret, nativeTextDecoder, written,
                 heap, refs, target, last, component>>

\* the caller creates an element of the class it was given
Construct ==
  /\ definer.created
  /\ ~component.created
  /\ definer.returned.t = "class"
  /\ component' =
       construct(IF definer.returned.v = "lib0-lazy" THEN "string" ELSE "none",
                 IF definer.returned.v = "lib0-lazy" THEN JsNull
                 ELSE JsUndefined)
  /\ op' = "construct"
  /\ arg' = 0
  /\ UNCHANGED <<decoder, prev, ret, nativeTextDecoder, written,
                 heap, refs, target, last, definer>>

InitDefiner ==
  /\ definer \in {createComponentDefiner(name) : name \in Definers}
  /\ component = [created |-> FALSE]
  /\ op = "new"
  /\ arg = 0
  /\ NoDecoder

NextDefiner == Define \/ Construct \/ NextComponent

SpecDefiner == InitDefiner /\ [][NextDefiner]_vars

\* ------------------------------------------------------------------ C28
\* C28: the function returned by createComponentDefiner(definer) invokes
\* definer at most once over any number of calls, and every call returns
\* the value that one invocation produced
C28_DefinedOnce ==
  /\ Len(definer.produced) <= 1
  /\ op = "define" => definer.returned = definer.produced[1]

====
